---- MODULE Spec2Model ----
(***************************************************************************)
(* Model of the chat pipeline of kearney-chatbot-mvp:                      *)
(*   backend/app/main.py                handle_chat, ChatRequest,          *)
(*                                      ChartData, ChatResponse            *)
(*   backend/app/services/qa_service.py get_answer_from_data,              *)
(*                                      execute_code_in_thread             *)
(*                                                                         *)
(* handle_chat is an "async def" that calls the blocking                   *)
(* get_answer_from_data directly, so the event loop serves one request at  *)
(* a time.  The only concurrency is between the handler and the execution  *)
(* threads it starts: a thread whose request timed out is never stopped    *)
(* and keeps running beside the later requests.                            *)
(*                                                                         *)
(* Python values are tagged records [t, v]; a Python string is the         *)
(* sequence of its pieces, so that concatenation and strip() are           *)
(* computed.                                                               *)
(*                                                                         *)
(* The handler's own print() calls (its diagnostics) are left out: they    *)
(* run after the join, when every thread still running belongs to a        *)
(* request that has returned, so whatever buffer they land in is read by   *)
(* nobody.                                                                 *)
(***************************************************************************)
EXTENDS Integers, Sequences, FiniteSets, TLC

\* Number of chat requests the server receives in one run.
MaxRequests == 2
\* Longest turn list of a request.
MaxTurns == 2

----------------------------------------------------------------------------
(* Python values *)

None == [t |-> "none", v |-> 0]
Str(pieces) == [t |-> "str", v |-> pieces]
Num(n) == [t |-> "num", v |-> n]
Bool(b) == [t |-> "bool", v |-> b]
List(xs) == [t |-> "list", v |-> xs]
Dict(f) == [t |-> "dict", v |-> f]

\* An exception object: its class and what str(e) gives.
Exc(type, msg) == [type |-> type, msg |-> msg]
NoExc == Exc("none", <<>>)

\* The exception classes that derive from Exception ("except Exception"
\* catches them); SystemExit, KeyboardInterrupt and GeneratorExit derive
\* from BaseException only.
ExceptionClasses ==
    {"ValueError", "NameError", "SyntaxError", "RecursionError",
     "JSONDecodeError", "ResourceExhausted", "TypeError"}

IsException(e) == e.type \in ExceptionClasses

\* Characters str.strip() removes.
Whitespace == {" ", "\n"}

RECURSIVE LStrip(_)
LStrip(s) ==
    IF s = <<>> THEN s
    ELSE IF Head(s) \in Whitespace THEN LStrip(Tail(s)) ELSE s

RECURSIVE RStrip(_)
RStrip(s) ==
    IF s = <<>> THEN s
    ELSE IF s[Len(s)] \in Whitespace THEN RStrip(SubSeq(s, 1, Len(s) - 1)) ELSE s

\* str.strip()
Strip(s) == RStrip(LStrip(s))

\* bool(x) of a Python value, as "if result.get('chart')" takes it.
Truthy(x) ==
    CASE x.t = "none" -> FALSE
      [] x.t = "bool" -> x.v
      [] x.t = "num"  -> x.v # 0
      [] x.t = "str"  -> x.v # <<>>
      [] x.t = "list" -> x.v # <<>>
      [] x.t = "dict" -> DOMAIN x.v # {}
      [] OTHER -> TRUE

\* str(x) of the values json.loads can give at the top level of the
\* documents below (a dict goes the other branch of the caller).
PyStr(x) ==
    CASE x.t = "none" -> <<"None">>
      [] x.t = "bool" -> IF x.v THEN <<"True">> ELSE <<"False">>
      [] x.t = "num"  -> <<ToString(x.v)>>
      [] x.t = "str"  -> x.v
      [] OTHER -> <<"<repr>">>

\* dict.get(key, default)
Get(d, key, default) == IF key \in DOMAIN d.v THEN d.v[key] ELSE default

----------------------------------------------------------------------------
(* json.loads *)

DocXNull == "{\"answer\": \"x\", \"chart\": null}"
DocNoAnswer == "{\"chart\": null}"
DocNullAnswer == "{\"answer\": null, \"chart\": null}"
DocChartOk ==
    "{\"answer\": \"ok\", \"chart\": {\"type\": \"bar\", \"labels\": [\"A\", \"B\"], \"data\": [1, 2]}}"
DocChartMismatch ==
    "{\"answer\": \"ok\", \"chart\": {\"type\": \"bar\", \"labels\": [\"A\"], \"data\": [1, 2]}}"
DocChartLine ==
    "{\"answer\": \"ok\", \"chart\": {\"type\": \"line\", \"labels\": [\"A\"], \"data\": [1]}}"
DocChartBadData ==
    "{\"answer\": \"ok\", \"chart\": {\"type\": \"pie\", \"labels\": [\"A\"], \"data\": [\"n/a\"]}}"
DocChartNoLabels ==
    "{\"answer\": \"ok\", \"chart\": {\"type\": \"pie\", \"data\": [1]}}"
DocChartString == "{\"answer\": \"ok\", \"chart\": \"bar\"}"
DocChartEmpty == "{\"answer\": \"ok\", \"chart\": {}}"
DocNumber == "42"
DocZero == "0"
DocString == "\"a\""
DocNull == "null"
\* 100000 opening brackets: the scanner's recursion limit is hit before
\* the end of the text is.
DocDeep == "[[[[[[[[...["
TextHello == "hello"

ChartValue(type, labels, data) ==
    Dict([type |-> Str(<<type>>), labels |-> List(labels), data |-> List(data)])

\* A result of json.loads: the value, or the exception raised.
Loaded(val) == [exc |-> NoExc, val |-> val]
LoadFails(type, msg) == [exc |-> Exc(type, msg), val |-> None]

\* The JSON document at the start of a text.
ParseDoc(doc) ==
    CASE doc = DocXNull ->
           Loaded(Dict([answer |-> Str(<<"x">>), chart |-> None]))
      [] doc = DocNoAnswer -> Loaded(Dict([chart |-> None]))
      [] doc = DocNullAnswer -> Loaded(Dict([answer |-> None, chart |-> None]))
      [] doc = DocChartOk ->
           Loaded(Dict([answer |-> Str(<<"ok">>),
                        chart |-> ChartValue("bar", <<Str(<<"A">>), Str(<<"B">>)>>,
                                             <<Num(1), Num(2)>>)]))
      [] doc = DocChartMismatch ->
           Loaded(Dict([answer |-> Str(<<"ok">>),
                        chart |-> ChartValue("bar", <<Str(<<"A">>)>>,
                                             <<Num(1), Num(2)>>)]))
      [] doc = DocChartLine ->
           Loaded(Dict([answer |-> Str(<<"ok">>),
                        chart |-> ChartValue("line", <<Str(<<"A">>)>>, <<Num(1)>>)]))
      [] doc = DocChartBadData ->
           Loaded(Dict([answer |-> Str(<<"ok">>),
                        chart |-> ChartValue("pie", <<Str(<<"A">>)>>,
                                             <<Str(<<"n/a">>)>>)]))
      [] doc = DocChartNoLabels ->
           Loaded(Dict([answer |-> Str(<<"ok">>),
                        chart |-> Dict([type |-> Str(<<"pie">>),
                                        data |-> List(<<Num(1)>>)])]))
      [] doc = DocChartString ->
           Loaded(Dict([answer |-> Str(<<"ok">>), chart |-> Str(<<"bar">>)]))
      [] doc = DocChartEmpty ->
           Loaded(Dict([answer |-> Str(<<"ok">>),
                        chart |-> Dict([k \in {} |-> None])]))
      [] doc = DocNumber -> Loaded(Num(42))
      [] doc = DocZero -> Loaded(Num(0))
      [] doc = DocString -> Loaded(Str(<<"a">>))
      [] doc = DocNull -> Loaded(None)
      [] doc = DocDeep ->
           LoadFails("RecursionError",
                     <<"maximum recursion depth exceeded while decoding a JSON array">>)
      [] OTHER -> LoadFails("JSONDecodeError", <<"Expecting value">>)

\* json.loads(text): one document, then nothing but whitespace.
JsonLoads(text) ==
    LET body == LStrip(text) IN
    IF body = <<>> THEN LoadFails("JSONDecodeError", <<"Expecting value">>)
    ELSE LET first == ParseDoc(Head(body)) IN
         IF first.exc # NoExc THEN first
         ELSE IF LStrip(Tail(body)) # <<>>
              THEN LoadFails("JSONDecodeError", <<"Extra data">>)
              ELSE first

----------------------------------------------------------------------------
(* Generated programs *)

Op(op, arg) == [op |-> op, arg |-> arg]

\* What a generated program may print in one print() call.
Docs ==
    {DocXNull, DocNoAnswer, DocNullAnswer, DocChartOk, DocChartMismatch,
     DocChartLine, DocChartBadData, DocChartNoLabels, DocChartString,
     DocChartEmpty, DocNumber, DocString, DocNull, DocDeep, TextHello}

\* Source of the program that prints one document.
PrintSource(doc) == <<"print('", doc, "')">>

SrcRaise == "raise ValueError('boom')"
SrcPrintRaise == "print('hello')\nraise ValueError('boom')"
SrcExit == "raise SystemExit"
SrcLoop == "while True: pass"
SrcPrintLoop == "print('hello')\nwhile True: pass"
\* A computation that takes longer than the deadline and then answers.
SrcSlow == "n = sum(range(10**9))\nprint(json.dumps({'answer': 'x', 'chart': None}))"
SrcBlank == "print()"
SrcImport == "os = __import__('os')\nprint(json.dumps({'answer': 'x', 'chart': None}))"
SrcOpen == "open('/etc/passwd')"
SrcUnbound == "os.getcwd()"
SrcLen == "print(len(df))"
SrcDrop == "df.drop(df.index, inplace=True)\nprint(len(df))"

ProgramSources ==
    {SrcRaise, SrcPrintRaise, SrcExit, SrcLoop, SrcPrintLoop, SrcSlow,
     SrcBlank, SrcImport, SrcOpen, SrcUnbound, SrcLen, SrcDrop}

\* The statements of each program, in order.
Statements(src) ==
    CASE src = SrcRaise -> <<Op("raise", "ValueError")>>
      [] src = SrcPrintRaise -> <<Op("print", TextHello), Op("raise", "ValueError")>>
      [] src = SrcExit -> <<Op("raise", "SystemExit")>>
      [] src = SrcLoop -> <<Op("loop", "")>>
      [] src = SrcPrintLoop -> <<Op("print", TextHello), Op("loop", "")>>
      [] src = SrcSlow -> <<Op("slow", ""), Op("print", DocXNull)>>
      [] src = SrcBlank -> <<Op("print", "")>>
      [] src = SrcImport -> <<Op("name", "__import__"), Op("print", DocXNull)>>
      [] src = SrcOpen -> <<Op("name", "open")>>
      [] src = SrcUnbound -> <<Op("name", "os")>>
      [] src = SrcLen -> <<Op("name", "len"), Op("name", "df"), Op("len", "df")>>
      [] src = SrcDrop -> <<Op("name", "df"), Op("drop", "df"), Op("len", "df")>>
      [] OTHER -> <<>>

SyntaxErrorExc == Exc("SyntaxError", <<"invalid syntax (<string>, line 1)">>)

\* What exec() makes of a source text: its statements, or SyntaxError for
\* a text that is no Python program.  The empty text is the empty program.
Compile(code) ==
    IF code = <<>> THEN [exc |-> NoExc, stmts |-> <<>>]
    ELSE IF Len(code) = 1 /\ code[1] \in ProgramSources
         THEN [exc |-> NoExc, stmts |-> Statements(code[1])]
    ELSE IF Len(code) = 3 /\ code[2] \in Docs /\ code = PrintSource(code[2])
         THEN [exc |-> NoExc, stmts |-> <<Op("print", code[2])>>]
    ELSE [exc |-> SyntaxErrorExc, stmts |-> <<>>]

\* Names of the builtins module (a part of them): exec's globals are
\* {"__builtins__": __builtins__}, the whole module.
Builtins == {"print", "len", "sum", "range", "__import__", "open", "exec", "eval"}

\* Keys of local_vars.
LocalVars == {"df", "pd", "json"}

\* Whether a name resolves inside the program.
Resolves(name) == name \in Builtins \cup LocalVars

\* The exception a raise statement raises.
Raised(cls) ==
    CASE cls = "SystemExit" -> Exc("SystemExit", <<>>)
      [] cls = "SyntaxError" -> SyntaxErrorExc
      [] OTHER -> Exc(cls, <<"boom">>)

----------------------------------------------------------------------------
(* The model client *)

Reply(exc, text) == [exc |-> exc, text |-> text]

\* The markdown fence lines a model wraps code in (three backquotes, written
\* here as three quotes).
FenceOpen == "'''python\n"
FenceClose == "\n'''"

\* response.text that the model may return.
ModelTexts ==
    {PrintSource(d) : d \in Docs}
    \cup {<<s>> : s \in ProgramSources}
    \cup {<<>>,
          <<"\n", "print('", DocXNull, "')", "\n">>,
          <<FenceOpen, "print('", DocXNull, "')", FenceClose>>}

\* generate_content raises, or response.text raises (a blocked response has
\* no text), or the text is returned.
ModelReplies ==
    {Reply(Exc("ResourceExhausted", <<"429 quota exceeded">>), <<>>),
     Reply(Exc("ValueError", <<"response.text requires a valid Part">>), <<>>)}
    \cup {Reply(NoExc, t) : t \in ModelTexts}

----------------------------------------------------------------------------
(* Request bodies *)

Senders == {"user", "assistant"}
Texts == {"q"}
ChatMessage(sender, text) == [sender |-> sender, text |-> text]
ChatMessages == {ChatMessage(s, t) : s \in Senders, t \in Texts}

SeqsUpTo(S, n) == UNION {[1..k -> S] : k \in 0..n}

\* A body with a turn list, and a body without the "messages" field.
Body(messages) == [present |-> TRUE, messages |-> messages]
MissingBody == [present |-> FALSE, messages |-> <<>>]
Bodies == {MissingBody} \cup {Body(m) : m \in SeqsUpTo(ChatMessages, MaxTurns)}

----------------------------------------------------------------------------
(* get_answer_from_data: the pure parts *)

Result(answer, chart) == [answer |-> answer, chart |-> chart]
NoResult == Result(None, None)

\* A faulty variant: every turn is taken for the user's.
HistoryLine_AllUser(message) == <<"User: ", message.text, "\n">>

\* One line of formatted_history.
HistoryLine(message) ==
    IF message.sender = "user"
    THEN <<"User: ", message.text, "\n">>
    ELSE <<"Assistant: ", message.text, "\n">>

RECURSIVE FormatHistory(_)
FormatHistory(history) ==
    IF history = <<>> THEN <<>>
    ELSE HistoryLine(Head(history)) \o FormatHistory(Tail(history))

\* USER_PROMPT_TEMPLATE.format(...): the two parts that vary.
Prompt(history, question) == [chat_history |-> history, question |-> question]
NoPrompt == Prompt(<<>>, "")

TimeoutAnswer == "Error: Your query took too long to execute and was terminated."
NoOutputAnswer == "The query ran but produced no output."
NotJsonAnswer == "An error occurred. The AI's response was not valid JSON.\nRaw output: "
DefaultAnswer == "Query executed."

\* The outer "except Exception as e".
ModelErrorResult(e) ==
    Result(Str(<<"An error occurred with the AI model: ">> \o e.msg), None)

\* A faulty variant: the timeout answer reports what was printed so far.
TimeoutResult_WithOutput == Result(Str(<<TimeoutAnswer, TextHello>>), None)

TimeoutResult == Result(Str(<<TimeoutAnswer>>), None)

\* status == 'error'
RuntimeErrorResult(e) == Result(Str(<<"Error analyzing data: ">> \o e.msg), None)

\* isinstance(result_data, dict) and its else branch.
LoadedResult(val) ==
    IF val.t = "dict"
    THEN Result(Get(val, "answer", Str(<<DefaultAnswer>>)), Get(val, "chart", None))
    ELSE Result(Str(PyStr(val)), None)

\* From "output = result[0]" to the end: only JSONDecodeError has its own
\* handler, any other Exception of json.loads goes to the outer one.
OutputResult(output) ==
    IF output = <<>> THEN Result(Str(<<NoOutputAnswer>>), None)
    ELSE LET loaded == JsonLoads(output) IN
         IF loaded.exc = NoExc THEN LoadedResult(loaded.val)
         ELSE IF loaded.exc.type = "JSONDecodeError"
              THEN Result(Str(<<NotJsonAnswer>> \o output), None)
              ELSE ModelErrorResult(loaded.exc)

----------------------------------------------------------------------------
(* handle_chat: the pure parts *)

NullChart == [t |-> "none", v |-> 0]

AllOf(xs, tag) == \A i \in 1..Len(xs) : xs[i].t = tag

\* Whether ChartData(**chart) validates: type: str, labels: List[str],
\* data: List[float], all three required; nothing else is checked.
ChartDataAccepts(chart) ==
    /\ chart.t = "dict"
    /\ {"type", "labels", "data"} \subseteq DOMAIN chart.v
    /\ chart.v["type"].t = "str"
    /\ chart.v["labels"].t = "list" /\ AllOf(chart.v["labels"].v, "str")
    /\ chart.v["data"].t = "list" /\ AllOf(chart.v["data"].v, "num")

\* The ChartData instance.
ChartData(chart) ==
    [t |-> "ChartData",
     v |-> [type |-> chart.v["type"].v,
            labels |-> [i \in 1..Len(chart.v["labels"].v) |-> chart.v["labels"].v[i].v],
            data |-> [i \in 1..Len(chart.v["data"].v) |-> chart.v["data"].v[i].v]]]

\* "if result.get('chart')" with its try/except.
ValidatedChart(chart) ==
    IF Truthy(chart) /\ ChartDataAccepts(chart) THEN ChartData(chart) ELSE NullChart

Response(kind, answer, chart) == [kind |-> kind, answer |-> answer, chart |-> chart]
NoResponse == Response("none", <<>>, NullChart)
\* The body fails ChatRequest's validation: the framework answers 422 and
\* handle_chat is not called.
Rejected == Response("rejected", <<>>, NullChart)
\* handle_chat raised: the framework answers 500.
Raises == Response("raised", <<>>, NullChart)

\* ChatResponse(answer=..., chart=...): answer: str is validated.
ChatResponse(answer, chart) ==
    IF answer.t = "str" THEN Response("payload", answer.v, chart) ELSE Raises

\* A faulty variant: the empty turn list gets the handler's initial result.
NoQueryResponse_Default == Response("payload", <<"An error occurred.">>, NullChart)

NoQueryResponse == ChatResponse(Str(<<"No query provided.">>), NullChart)

\* "if not request.messages"
IsEmpty(messages) == messages = <<>>

\* handle_chat after get_answer_from_data returned.
Respond(result) == ChatResponse(result.answer, ValidatedChart(result.chart))

----------------------------------------------------------------------------
(* State *)

VARIABLES
    nreq,            \* requests received so far; request nreq is the current one
    pc,              \* where the handler is: "idle", "generate", "join", "get"
    body,            \* body of the current request
    prompt,          \* prompt built for the current request
    reply,           \* what the model client did for the current request
    generated_code,  \* the code handed to the execution thread
    called,          \* which core components the current request invoked
    outcome,         \* what the handler learnt of the execution
    result,          \* what get_answer_from_data returned
    resp,            \* how the request ended at the request boundary
    threads,         \* execution thread of each request
    bufs,            \* redirected_output of each execution thread
    queues,          \* result_queue of each request
    sys_stdout,      \* sys.stdout: 0 is the process's stream, i is bufs[i]
    wrote,           \* what the program of each request has printed
    resolved,        \* the names the program of each request has resolved
    timedOut,        \* requests that returned the took-too-long result
    df,              \* the module's df, read from the data file at import
    local_df         \* local_vars["df"] of each request

handlerVars == <<body, prompt, reply, generated_code, called, outcome, result, resp>>
threadVars == <<threads, bufs, queues, sys_stdout, wrote, resolved>>
vars == <<nreq, pc, handlerVars, threadVars, timedOut, df, local_df>>

Requests == 1..MaxRequests

\* Data frames: the one read from Sugar_Spend_Data.csv, and it without rows.
Dataset == "Sugar_Spend_Data.csv"
EmptyFrame == "Empty DataFrame"
NoFrame == "none"

\* df.copy()
Copy(frame) == frame

\* str(len(frame))
LenText(frame) == IF frame = EmptyFrame THEN DocZero ELSE DocNumber

Thread(status, stmts, old_stdout) ==
    [status |-> status, stmts |-> stmts, old_stdout |-> old_stdout]
NoThread == Thread("none", <<>>, 0)

\* execution_thread.is_alive()
IsAlive(thread) == thread.status \in {"ready", "running"}

Outcome(kind, text, exc) == [kind |-> kind, text |-> text, exc |-> exc]
NoOutcome == Outcome("none", <<>>, NoExc)

\* Items of result_queue: ('success', output) and ('error', e, code).
SuccessItem(output) == [status |-> "success", output |-> output, e |-> NoExc]
ErrorItem(e) == [status |-> "error", output |-> <<>>, e |-> e]

NoReply == Reply(Exc("not called", <<>>), <<>>)
NotCalled == [generator |-> FALSE, executor |-> FALSE]

Init ==
    /\ nreq = 0
    /\ pc = "idle"
    /\ body = MissingBody
    /\ prompt = NoPrompt
    /\ reply = NoReply
    /\ generated_code = <<>>
    /\ called = NotCalled
    /\ outcome = NoOutcome
    /\ result = NoResult
    /\ resp = NoResponse
    /\ threads = [i \in Requests |-> NoThread]
    /\ bufs = [i \in Requests |-> <<>>]
    /\ queues = [i \in Requests |-> <<>>]
    /\ sys_stdout = 0
    /\ wrote = [i \in Requests |-> <<>>]
    /\ resolved = [i \in Requests |-> {}]
    /\ timedOut = {}
    /\ df = Dataset
    /\ local_df = [i \in Requests |-> NoFrame]

----------------------------------------------------------------------------
(* The request boundary *)

\* A request arrives: the locals of the previous one are gone.
Arrives(b) ==
    /\ pc = "idle"
    /\ nreq < MaxRequests
    /\ nreq' = nreq + 1
    /\ body' = b
    /\ reply' = NoReply
    /\ generated_code' = <<>>
    /\ called' = NotCalled
    /\ outcome' = NoOutcome
    /\ result' = NoResult

\* ChatRequest: "messages" is a required field, a body without it never
\* reaches handle_chat.
ValidationError(b) ==
    /\ ~b.present
    /\ Arrives(b)
    /\ resp' = Rejected
    /\ prompt' = NoPrompt
    /\ pc' = "idle"
    /\ UNCHANGED <<threadVars, timedOut, df, local_df>>

\* handle_chat, "if not request.messages".
HandleEmpty(b) ==
    /\ b.present
    /\ IsEmpty(b.messages)
    /\ Arrives(b)
    /\ resp' = NoQueryResponse
    /\ prompt' = NoPrompt
    /\ pc' = "idle"
    /\ UNCHANGED <<threadVars, timedOut, df, local_df>>

\* handle_chat up to the call of the model: history_messages and
\* current_query, then formatted_history and prompt.
HandleChat(b) ==
    /\ b.present
    /\ ~IsEmpty(b.messages)
    /\ Arrives(b)
    /\ LET history_messages == SubSeq(b.messages, 1, Len(b.messages) - 1)
           current_query == b.messages[Len(b.messages)].text
       IN  prompt' = Prompt(FormatHistory(history_messages), current_query)
    /\ resp' = NoResponse
    /\ pc' = "generate"
    /\ UNCHANGED <<threadVars, timedOut, df, local_df>>

\* get_answer_from_data returns r, and handle_chat ends.
Returns(r) ==
    /\ result' = r
    /\ resp' = Respond(r)
    /\ pc' = "idle"

----------------------------------------------------------------------------
(* get_answer_from_data *)

\* A faulty variant: the failure is swallowed next to the call and the
\* (empty) code is executed all the same.
GenerateFails_FallsThrough(r) ==
    /\ pc = "generate"
    /\ r.exc # NoExc
    /\ reply' = r
    /\ generated_code' = <<>>
    /\ called' = [generator |-> TRUE, executor |-> TRUE]
    /\ threads' = [threads EXCEPT ![nreq] = Thread("ready", <<>>, 0)]
    /\ queues' = [queues EXCEPT ![nreq] = <<>>]
    /\ pc' = "join"
    /\ UNCHANGED <<nreq, body, prompt, outcome, result, resp, bufs, sys_stdout,
                   wrote, resolved, timedOut, df, local_df>>

\* model.generate_content or response.text raises: the outer handler.
GenerateFails(r) ==
    /\ pc = "generate"
    /\ r.exc # NoExc
    /\ reply' = r
    /\ called' = [called EXCEPT !.generator = TRUE]
    /\ Returns(ModelErrorResult(r.exc))
    /\ UNCHANGED <<nreq, body, prompt, generated_code, outcome, threadVars, timedOut, df, local_df>>

\* The statements exec(code, ...) runs: a text that does not compile raises
\* SyntaxError before anything runs.
Exec(code) ==
    IF Compile(code).exc # NoExc
    THEN <<Op("raise", "SyntaxError")>>
    ELSE Compile(code).stmts

\* The model returns text: it is stripped and handed to a new thread, with
\* a new queue, and the handler joins the thread.
GenerateCode(r) ==
    /\ pc = "generate"
    /\ r.exc = NoExc
    /\ reply' = r
    /\ generated_code' = Strip(r.text)
    /\ called' = [generator |-> TRUE, executor |-> TRUE]
    /\ local_df' = [local_df EXCEPT ![nreq] = Copy(df)]
    /\ threads' = [threads EXCEPT ![nreq] = Thread("ready", Exec(Strip(r.text)), 0)]
    /\ queues' = [queues EXCEPT ![nreq] = <<>>]
    /\ pc' = "join"
    /\ UNCHANGED <<nreq, body, prompt, outcome, result, resp, bufs, sys_stdout,
                   wrote, resolved, timedOut, df>>

\* Whether the thread is in a statement that outlasts the 3 seconds.
Outlasts(thread) ==
    /\ thread.status = "running"
    /\ thread.stmts # <<>>
    /\ Head(thread.stmts).op \in {"slow", "loop"}

\* join(timeout=3.0) returns with the thread alive: the handler returns
\* and leaves the thread running.
JoinTimesOut ==
    /\ pc = "join"
    /\ IsAlive(threads[nreq])
    /\ Outlasts(threads[nreq])
    /\ outcome' = Outcome("TimedOut", <<>>, NoExc)
    /\ timedOut' = timedOut \cup {nreq}
    /\ Returns(TimeoutResult)
    /\ UNCHANGED <<nreq, body, prompt, reply, generated_code, called, threadVars,
                   df, local_df>>

\* join returns because the thread ended.
JoinReturns ==
    /\ pc = "join"
    /\ ~IsAlive(threads[nreq])
    /\ pc' = "get"
    /\ UNCHANGED <<nreq, handlerVars, threadVars, timedOut, df, local_df>>

\* The locals of a request that returned from "get" are garbage.
Collect ==
    /\ queues' = [queues EXCEPT ![nreq] = <<>>]
    /\ bufs' = [bufs EXCEPT ![nreq] = <<>>]
    /\ wrote' = [wrote EXCEPT ![nreq] = <<>>]
    /\ local_df' = [local_df EXCEPT ![nreq] = NoFrame]

\* result_queue.get() gives ('error', e, code).
ProcessError ==
    /\ pc = "get"
    /\ queues[nreq] # <<>>
    /\ Head(queues[nreq]).status = "error"
    /\ outcome' = Outcome("RuntimeFailure", <<>>, Head(queues[nreq]).e)
    /\ Returns(RuntimeErrorResult(Head(queues[nreq]).e))
    /\ Collect
    /\ UNCHANGED <<nreq, body, prompt, reply, generated_code, called, threads,
                   sys_stdout, resolved, timedOut, df>>

\* result_queue.get() gives ('success', output).
ProcessOutput ==
    /\ pc = "get"
    /\ queues[nreq] # <<>>
    /\ Head(queues[nreq]).status = "success"
    /\ outcome' = Outcome("Success", Head(queues[nreq]).output, NoExc)
    /\ Returns(OutputResult(Head(queues[nreq]).output))
    /\ Collect
    /\ UNCHANGED <<nreq, body, prompt, reply, generated_code, called, threads,
                   sys_stdout, resolved, timedOut, df>>

----------------------------------------------------------------------------
(* execute_code_in_thread *)

\* old_stdout = sys.stdout; sys.stdout = redirected_output; exec starts.
ThreadBegins(i) ==
    /\ threads[i].status = "ready"
    /\ threads' = [threads EXCEPT ![i] = Thread("running", threads[i].stmts, sys_stdout)]
    /\ bufs' = [bufs EXCEPT ![i] = <<>>]
    /\ sys_stdout' = i
    /\ UNCHANGED <<nreq, pc, handlerVars, queues, wrote, resolved, timedOut, df, local_df>>

\* What the print statement of a program is given: a text, or len(df) of
\* the program's own frame.
Argument(stmt, frame) == IF stmt.op = "len" THEN LenText(frame) ELSE stmt.arg

\* What print(text) writes.
Printed(text) == IF text = "" THEN <<"\n">> ELSE <<text, "\n">>

\* print() writes to what sys.stdout is at the moment of the call.  What is
\* written to the process's stream, or to the buffer of a thread that has
\* ended, is read by nobody.
ThreadPrints(i) ==
    /\ threads[i].status = "running"
    /\ threads[i].stmts # <<>>
    /\ Head(threads[i].stmts).op \in {"print", "len"}
    /\ LET text == Printed(Argument(Head(threads[i].stmts), local_df[i])) IN
       /\ wrote' = [wrote EXCEPT ![i] = @ \o text]
       /\ IF sys_stdout # 0 /\ threads[sys_stdout].status = "running"
          THEN bufs' = [bufs EXCEPT ![sys_stdout] = @ \o text]
          ELSE bufs' = bufs
    /\ threads' = [threads EXCEPT ![i].stmts = Tail(@)]
    /\ UNCHANGED <<nreq, pc, handlerVars, queues, sys_stdout, resolved, timedOut, df, local_df>>

\* df.drop(df.index, inplace=True): df is local_vars["df"], the copy.
ThreadDrops(i) ==
    /\ threads[i].status = "running"
    /\ threads[i].stmts # <<>>
    /\ Head(threads[i].stmts).op = "drop"
    /\ local_df' = [local_df EXCEPT ![i] = EmptyFrame]
    /\ threads' = [threads EXCEPT ![i].stmts = Tail(@)]
    /\ UNCHANGED <<nreq, pc, handlerVars, bufs, queues, sys_stdout, wrote,
                   resolved, timedOut, df>>

\* A name that resolves in the globals or locals given to exec.
ThreadResolves(i) ==
    /\ threads[i].status = "running"
    /\ threads[i].stmts # <<>>
    /\ Head(threads[i].stmts).op = "name"
    /\ Resolves(Head(threads[i].stmts).arg)
    /\ resolved' = [resolved EXCEPT ![i] = @ \cup {Head(threads[i].stmts).arg}]
    /\ threads' = [threads EXCEPT ![i].stmts = Tail(@)]
    /\ UNCHANGED <<nreq, pc, handlerVars, bufs, queues, sys_stdout, wrote, timedOut, df, local_df>>

\* A computation longer than the deadline ends: the join has timed out by
\* then.  ("while True" never ends.)
ThreadComputes(i) ==
    /\ threads[i].status = "running"
    /\ threads[i].stmts # <<>>
    /\ Head(threads[i].stmts).op = "slow"
    /\ i \in timedOut
    /\ threads' = [threads EXCEPT ![i].stmts = Tail(@)]
    /\ UNCHANGED <<nreq, pc, handlerVars, bufs, queues, sys_stdout, wrote,
                   resolved, timedOut, df, local_df>>

\* The exception the next statement raises, NoExc when it raises none.
Raising(thread) ==
    IF thread.stmts = <<>> THEN NoExc
    ELSE LET stmt == Head(thread.stmts) IN
         IF stmt.op = "raise" THEN Raised(stmt.arg)
         ELSE IF stmt.op = "name" /\ ~Resolves(stmt.arg)
              THEN Exc("NameError", <<"name '", stmt.arg, "' is not defined">>)
              ELSE NoExc

\* What "except Exception as e" puts in the queue for e.
PutOnException(e) == IF IsException(e) THEN <<ErrorItem(e)>> ELSE <<>>

\* The program raises: "except Exception" puts ('error', e, code), and
\* finally restores sys.stdout; an exception that is no Exception leaves
\* the thread with only the finally done.
ThreadRaises(i) ==
    /\ threads[i].status = "running"
    /\ Raising(threads[i]) # NoExc
    /\ queues' = [queues EXCEPT ![i] = @ \o PutOnException(Raising(threads[i]))]
    /\ sys_stdout' = threads[i].old_stdout
    /\ threads' = [threads EXCEPT ![i] = Thread("finished", <<>>, threads[i].old_stdout)]
    /\ UNCHANGED <<nreq, pc, handlerVars, bufs, wrote, resolved, timedOut, df, local_df>>

\* exec returns: output is the stripped buffer, ('success', output) is put,
\* and finally restores sys.stdout.
ThreadReturns(i) ==
    /\ threads[i].status = "running"
    /\ threads[i].stmts = <<>>
    /\ queues' = [queues EXCEPT ![i] = @ \o <<SuccessItem(Strip(bufs[i]))>>]
    /\ sys_stdout' = threads[i].old_stdout
    /\ threads' = [threads EXCEPT ![i] = Thread("finished", <<>>, threads[i].old_stdout)]
    /\ UNCHANGED <<nreq, pc, handlerVars, bufs, wrote, resolved, timedOut, df, local_df>>

----------------------------------------------------------------------------

Next ==
    \/ \E b \in Bodies : ValidationError(b)
    \/ \E b \in Bodies : HandleEmpty(b)
    \/ \E b \in Bodies : HandleChat(b)
    \/ \E r \in ModelReplies : GenerateFails(r)
    \/ \E r \in ModelReplies : GenerateCode(r)
    \/ JoinTimesOut
    \/ JoinReturns
    \/ ProcessError
    \/ ProcessOutput
    \/ \E i \in Requests : ThreadBegins(i)
    \/ \E i \in Requests : ThreadPrints(i)
    \/ \E i \in Requests : ThreadDrops(i)
    \/ \E i \in Requests : ThreadResolves(i)
    \/ \E i \in Requests : ThreadComputes(i)
    \/ \E i \in Requests : ThreadRaises(i)
    \/ \E i \in Requests : ThreadReturns(i)

Spec == Init /\ [][Next]_vars

----------------------------------------------------------------------------
(* The history formatter on more turn lists *)

\* sender and text are any strings: a third sender, and a text of two
\* lines, as the answers of this service are (NotJsonAnswer).
TextTwoLines == "Spend by commodity:\nSugar 100"
HistorySenders == Senders \cup {"system"}
HistoryTexts == Texts \cup {TextTwoLines}
HistoryMessages == {ChatMessage(s, t) : s \in HistorySenders, t \in HistoryTexts}
HistoryBodies ==
    {MissingBody} \cup {Body(m) : m \in SeqsUpTo(HistoryMessages, MaxTurns)}

\* formatted_history and prompt are built before the model is called:
\* the requests of this specification end at a failure of that call.
NextHistory ==
    \/ \E b \in HistoryBodies : ValidationError(b)
    \/ \E b \in HistoryBodies : HandleEmpty(b)
    \/ \E b \in HistoryBodies : HandleChat(b)
    \/ \E r \in ModelReplies : GenerateFails(r)

SpecHistory == Init /\ [][NextHistory]_vars

----------------------------------------------------------------------------
(* Properties *)

\* The last request received has ended.
Ended == pc = "idle" /\ nreq > 0

\* The last request received had a non-empty turn list.
NonEmptyRequest == body.present /\ body.messages # <<>>

\* C1: every request with a non-empty turn list ends at the request
\* boundary without raising, in an AnswerPayload whose answer is a string
\* and whose chart is null or a ChartSpec.
C1_BoundaryNeverRaises ==
    (Ended /\ NonEmptyRequest) =>
        /\ resp.kind = "payload"
        /\ resp.chart.t \in {"none", "ChartData"}

\* C2: every execution yields exactly one outcome, however the thread ends:
\* when join returns because the thread ended, result_queue.get() has an
\* item to give, and a request that started an execution ends with
\* Success, RuntimeFailure or TimedOut.
C2_ExecutionYieldsOneOutcome ==
    /\ pc = "get" => Len(queues[nreq]) = 1
    /\ (Ended /\ called.executor) =>
           outcome.kind \in {"Success", "RuntimeFailure", "TimedOut"}

\* C3: once a request has returned the took-too-long result, its execution
\* thread is not running.
C3_TimedOutExecutionIsTerminated ==
    \A i \in timedOut : ~IsAlive(threads[i])

\* C4: the text a request's handler receives as its Success output is the
\* (stripped) text that request's own program printed, nothing lost and
\* nothing received from another execution.
C4_CapturedIsOwnOutput ==
    (pc = "get" /\ queues[nreq] # <<>> /\ Head(queues[nreq]).status = "success") =>
        Head(queues[nreq]).output = Strip(wrote[nreq])

\* Names that load modules, reach the filesystem or the network, or control
\* the process.
ForbiddenSymbols == {"__import__", "open", "exec", "eval", "os", "socket", "subprocess"}

\* C5: no generated program ever resolves a name that loads modules or
\* reaches the filesystem, the network or process control.
C5_ForbiddenSymbolsUnresolvable ==
    \A i \in Requests : resolved[i] \cap ForbiddenSymbols = {}

NoQueryPayload == Response("payload", <<"No query provided.">>, NullChart)

\* C6 as stated: an empty or a missing turn list ends in the no-query
\* payload with neither the generator nor the executor invoked.
C6_EmptyOrMissingNoQuery ==
    (Ended /\ ~NonEmptyRequest) => (resp = NoQueryPayload /\ called = NotCalled)

\* C6 amended: an empty turn list ends in the no-query payload, a missing
\* turn list is rejected by the request validation before handle_chat, and
\* in both cases neither the generator nor the executor is invoked.
C6_EmptyNoQueryMissingRejected ==
    /\ (Ended /\ body.present /\ body.messages = <<>>) =>
           (resp = NoQueryPayload /\ called = NotCalled)
    /\ (Ended /\ ~body.present) =>
           (resp.kind = "rejected" /\ called = NotCalled)

C6_Witness ==
    Ended /\ body.present /\ body.messages = <<>> /\ resp.kind = "payload"

\* C7: when the model call (or reading its text) fails, no execution thread
\* is started for the request, and the request ends in an error answer
\* with a null chart.
C7_GenerationFailureShortCircuits ==
    (reply # NoReply /\ reply.exc # NoExc) =>
        /\ threads[nreq].status = "none"
        /\ ~called.executor
        /\ outcome = NoOutcome
        /\ Ended
        /\ resp = Response("payload",
                           <<"An error occurred with the AI model: ">> \o reply.exc.msg,
                           NullChart)

C7_Witness ==
    Ended /\ reply.exc.type = "ResourceExhausted" /\ resp.kind = "payload"

\* C8: when the model returns empty text, the request ends on the
\* generation-failure path: no program is executed and the result does not
\* come from an execution outcome.
C8_EmptyTextIsGenerationError ==
    (reply = Reply(NoExc, <<>>)) =>
        /\ ~called.executor
        /\ threads[nreq].status = "none"
        /\ outcome = NoOutcome

\* The ChartSpec invariant of a ChartData instance: the pydantic model gives
\* the element types, the type value and the equal lengths are on top.
ChartSpecInvariant(chart) ==
    /\ chart.t = "ChartData"
    /\ chart.v.type \in {<<"bar">>, <<"pie">>}
    /\ Len(chart.v.labels) = Len(chart.v.data)

\* C9: the chart of every returned payload is null or satisfies the
\* ChartSpec invariant.
C9_ChartNullOrValid ==
    (Ended /\ resp.kind = "payload") =>
        (resp.chart = NullChart \/ ChartSpecInvariant(resp.chart))

\* The payload the claim C10 gives for a captured text.
ClaimedResult(t) ==
    IF t = <<>> THEN Result(Str(<<NoOutputAnswer>>), None)
    ELSE IF JsonLoads(t).exc # NoExc THEN Result(Str(<<NotJsonAnswer>> \o t), None)
    ELSE IF JsonLoads(t).val.t # "dict" THEN Result(Str(PyStr(JsonLoads(t).val)), None)
    ELSE Result(IF "answer" \in DOMAIN JsonLoads(t).val.v
                THEN JsonLoads(t).val.v["answer"] ELSE Str(<<"Query executed.">>),
                IF "chart" \in DOMAIN JsonLoads(t).val.v
                THEN JsonLoads(t).val.v["chart"] ELSE None)

\* C10: for a Success outcome with captured text t, what
\* get_answer_from_data returns is determined by t: the no-output answer
\* for the empty text, the not-valid-JSON diagnostic embedding t for a text
\* json.loads cannot parse, the stringified value for a value that is no
\* object, and the object's answer (or the default) and chart otherwise.
C10_SuccessPayloadFromText ==
    (Ended /\ outcome.kind = "Success") => result = ClaimedResult(outcome.text)

\* The exception a program raises before the deadline, NoExc when it
\* raises none: the statements up to the first that raises, loops or
\* outlasts the deadline.
RECURSIVE ProgramFault(_)
ProgramFault(stmts) ==
    IF stmts = <<>> THEN NoExc
    ELSE IF Head(stmts).op \in {"loop", "slow"} THEN NoExc
    ELSE IF Raising(Thread("running", stmts, 0)) # NoExc
         THEN Raising(Thread("running", stmts, 0))
         ELSE ProgramFault(Tail(stmts))

\* C11: a request whose program raises a fault ends with the outcome
\* RuntimeFailure, in a payload with a null chart and an answer embedding
\* the fault description and nothing the program printed; the handler does
\* not hang on the fault, so later requests are served.
C11_FaultIsRuntimeFailure ==
    LET e == ProgramFault(Exec(generated_code)) IN
    (called.executor /\ e # NoExc) =>
        /\ pc = "get" => queues[nreq] # <<>>
        /\ Ended =>
              /\ outcome = Outcome("RuntimeFailure", <<>>, e)
              /\ result = Result(Str(<<"Error analyzing data: ">> \o e.msg), None)
              /\ resp = Response("payload", <<"Error analyzing data: ">> \o e.msg,
                                 NullChart)

\* Whether no piece of text a occurs in text b.
NoPieceOf(a, b) == \A i \in 1..Len(a), j \in 1..Len(b) : a[i] # b[j]

TimeoutPayload ==
    Response("payload",
             <<"Error: Your query took too long to execute and was terminated.">>,
             NullChart)

\* C12: when the wait of the deadline ends with the program not completed,
\* the request gets the fixed took-too-long answer with a null chart, which
\* holds nothing the program printed before the deadline; and the response
\* stays that one whatever the program prints afterwards.
C12_TimeoutAnswerIsFixed ==
    /\ [][(pc = "join" /\ IsAlive(threads[nreq]) /\ pc' # "join") =>
              /\ resp' = TimeoutPayload
              /\ result' = Result(Str(TimeoutPayload.answer), None)
              /\ NoPieceOf(wrote'[nreq], resp'.answer)]_vars
    /\ [](nreq \in timedOut /\ Ended =>
              resp = TimeoutPayload /\ NoPieceOf(wrote[nreq], resp.answer))

\* A request timed out after its program printed, and the program has
\* printed again since.
C12_Witness ==
    /\ Ended
    /\ nreq \in timedOut
    /\ resp = TimeoutPayload
    /\ wrote[nreq] # <<>>
    /\ threads[nreq].status = "finished"

\* Whether a text is a program between an opening and a closing fence.
IsFenced(text) ==
    Len(text) >= 2 /\ text[1] = FenceOpen /\ text[Len(text)] = FenceClose

\* The program inside the fences.
Unfenced(text) == SubSeq(text, 2, Len(text) - 1)

\* C15: when the model wraps the program in fence markup, the code handed
\* to the execution thread is the unwrapped program, which runs as the same
\* program returned without fences does.
C15_FencesAreStripped ==
    (called.executor /\ IsFenced(reply.text)) =>
        /\ generated_code = Unfenced(reply.text)
        /\ threads[nreq].status = "ready" =>
               threads[nreq].stmts = Exec(Unfenced(reply.text))

\* C16: whenever no execution thread is running, sys.stdout is the
\* process's original stream.
C16_StdoutRestoredWhenQuiet ==
    (\A i \in Requests : ~IsAlive(threads[i])) => sys_stdout = 0

\* Line breaks in a piece of text.
LineBreaks(piece) ==
    CASE piece = "\n" -> 1
      [] piece = TextTwoLines -> 1
      [] OTHER -> 0

RECURSIVE CountLines(_)
CountLines(text) ==
    IF text = <<>> THEN 0 ELSE LineBreaks(Head(text)) + CountLines(Tail(text))

\* The turns before the last one.
HistoryTurns == SubSeq(body.messages, 1, Len(body.messages) - 1)

\* The prefix the claim gives a turn.
ClaimedPrefix(message) == IF message.sender = "user" THEN "User: " ELSE "Assistant: "

\* formatted_history is, turn by turn and in order, the prefix, the text
\* of the turn and a line break.
OneEntryPerTurn ==
    /\ Len(prompt.chat_history) = 3 * Len(HistoryTurns)
    /\ \A k \in 1..Len(HistoryTurns) :
          /\ prompt.chat_history[3 * k - 2] = ClaimedPrefix(HistoryTurns[k])
          /\ prompt.chat_history[3 * k - 1] = HistoryTurns[k].text
          /\ prompt.chat_history[3 * k] = "\n"

RECURSIVE RunAlone(_, _, _)
RunAlone(stmts, frame, out) ==
    IF stmts = <<>> THEN Outcome("Success", Strip(out), NoExc)
    ELSE IF Head(stmts).op \in {"loop", "slow"} THEN Outcome("TimedOut", <<>>, NoExc)
    ELSE IF Raising(Thread("running", stmts, 0)) # NoExc
         THEN IF IsException(Raising(Thread("running", stmts, 0)))
              THEN Outcome("RuntimeFailure", <<>>, Raising(Thread("running", stmts, 0)))
              ELSE NoOutcome
    ELSE IF Head(stmts).op \in {"print", "len"}
         THEN RunAlone(Tail(stmts), frame, out \o Printed(Argument(Head(stmts), frame)))
    ELSE IF Head(stmts).op = "drop" THEN RunAlone(Tail(stmts), EmptyFrame, out)
    ELSE RunAlone(Tail(stmts), frame, out)

\* C13: whatever requests came before (ones that emptied their copy of the
\* data, ones that timed out), the execution of a program has the outcome
\* the program has on the Dataset alone, and the shared df is the Dataset.
C13_ExecutionIsIdempotent ==
    /\ df = Dataset
    /\ (called.executor /\ outcome # NoOutcome) =>
           outcome = RunAlone(Exec(generated_code), Dataset, <<>>)

====
